---- MODULE Spec2Model ----
(***************************************************************************)
(* A model of scrobbler.py: the LastFMScrobbler class (credential store,   *)
(* signer, auth handshake, submitter, batch planner) and the main() loop.  *)
(*                                                                         *)
(* The program is single-threaded; pc is the position of the one thread.   *)
(* Python strings that are only compared for equality are TLA+ strings;    *)
(* strings that are sorted or concatenated (the signer's keys and values)  *)
(* are sequences of code points.                                           *)
(***************************************************************************)
EXTENDS Integers, Sequences, FiniteSets, TLC

\* ------------------------------------------------------------------ bounds

\* The counts typed at the prompt in Spec range over -RawBelow..MaxRaw.
MaxRaw == 120
RawBelow == 1
\* Largest magnitude of the count typed at the prompt in SpecClamp.
MaxRawClamp == 1100
\* Largest number of entries of a parameter mapping in SpecSign.
MaxParams == 3

\* -------------------------------------------------------- program constants

\* batch_scrobble: track_duration = 180
track_duration == 180
\* batch_scrobble: batch_size = 50
batch_size == 50
\* main: count = min(1000, max(1, count))
MaxCount == 1000
MinCount == 1

\* Python's None, and the truth value `if not self.session_key` tests.
None == "None"
Truthy(v) == v # None /\ v # ""

\* ------------------------------------------------------------ environment

\* Tokens and session keys the server hands out (opaque, non-empty).
Tokens == {"t1", "t2"}
SessionKeys == {"sk1", "sk2"}
\* Values of int(time.time()) / int(start_date.timestamp()).
Clock == {1700000000}
\* Values typed at "How many days ago to start from?".
DaysAgo == {1}
SecondsPerDay == 86400
Artists == {"Artist A"}
Titles == {"Track B"}

\* What credentials.json can hold when the process starts: no file, a file
\* that does not parse, JSON without a session_key field, or a session_key
\* (hand-edited files may hold an empty one).
FileContents ==
    {[kind |-> "absent", session_key |-> None],
     [kind |-> "corrupt", session_key |-> None],
     [kind |-> "json", session_key |-> None]}
    \cup {[kind |-> "json", session_key |-> k] : k \in SessionKeys \cup {""}}

VARIABLES
    pc,            \* position of the thread
    caller,        \* which submit method ensure_auth / the POST runs for
    session_key,   \* self.session_key
    cred_file,     \* contents of CREDENTIALS_FILE
    sk_origin,     \* history: where session_key came from
    token,         \* ensure_auth's local `token`
    artist,        \* main / batch_scrobble: artist
    title,         \* main / batch_scrobble: title
    raw_count,     \* main: the count as typed
    count,         \* main / batch_scrobble: count
    start_date,    \* main: start_date, <<>> for None, <<t>> for a datetime
    base_timestamp, \* batch_scrobble: base_timestamp
    scrobbles,     \* batch_scrobble: the list of events
    i,             \* batch_scrobble: loop index (0-based)
    success_count, \* batch_scrobble: success_count
    calls,         \* history: the batches passed to scrobble_tracks, in order
    outcomes,      \* history: how each of those calls ended
    wire,          \* history: external effects of the current submit call
    result,        \* main: <<>>, or <<n>> once batch_scrobble returned n
    API_SECRET,    \* module global API_SECRET
    params,        \* get_signature: the caller's mapping
    api_sig        \* get_signature: the returned signature

vars == <<pc, caller, session_key, cred_file, sk_origin, token, artist, title,
          raw_count, count, start_date, base_timestamp, scrobbles, i, success_count, calls, outcomes,
          wire, result, API_SECRET, params, api_sig>>

signVars == <<API_SECRET, params, api_sig>>
batchVars == <<artist, title, raw_count, count, start_date, base_timestamp,
               scrobbles, i, success_count,
               calls, outcomes, result>>
authVars == <<session_key, cred_file, sk_origin, token>>

Ev(e, v) == [ev |-> e, val |-> v]

\* ------------------------------------------------------- credential store

\* load_session: the stored session_key, None when the file is absent,
\* unreadable (exception logged) or has no session_key field.
load_session(file) ==
    IF file.kind = "json" THEN file.session_key ELSE None

\* save_credentials: open(..., 'w') then json.dump; an exception is logged
\* and swallowed.  "ok": the file holds the key; "open_failed": the file is
\* untouched; "dump_failed": the file was truncated and is left unparsable.
SaveOutcomes == {"ok", "open_failed", "dump_failed"}
save_credentials(file, key, outcome) ==
    CASE outcome = "ok" -> [kind |-> "json", session_key |-> key]
      [] outcome = "open_failed" -> file
      [] OTHER -> [kind |-> "corrupt", session_key |-> None]

\* ------------------------------------------------------------------ signer

\* Strings the signer sorts and concatenates, as code points.
s_api_key == <<97, 112, 105, 95, 107, 101, 121>>
s_format == <<102, 111, 114, 109, 97, 116>>
s_method == <<109, 101, 116, 104, 111, 100>>
s_sk == <<115, 107>>
s_json == <<106, 115, 111, 110>>
s_x == <<120>>
s_empty == <<>>
SignKeys == {s_api_key, s_format, s_method, s_sk}
SignValues == {s_json, s_x, s_empty}
\* Values of the module global API_SECRET: the shipped placeholder "" or a
\* secret the user filled in ("s3").
Secrets == {<<>>, <<115, 51>>}

\* A Python dict: its items <<key, value>> in insertion order, keys distinct.
Dicts(n) ==
    UNION {{d \in [1..m -> SignKeys \X SignValues] :
               \A a, b \in 1..m : a # b => d[a][1] # d[b][1]} : m \in 0..n}
DictKeys(d) == {d[j][1] : j \in DOMAIN d}
DictValue(d, k) == d[CHOOSE j \in DOMAIN d : d[j][1] = k][2]
\* d.pop(k, None)
DictPop(d, k) == SelectSeq(d, LAMBDA item : item[1] # k)
\* d[k] = v: an existing key keeps its position.
DictSet(d, k, v) ==
    IF k \in DictKeys(d)
    THEN [j \in DOMAIN d |-> IF d[j][1] = k THEN <<k, v>> ELSE d[j]]
    ELSE Append(d, <<k, v>>)

\* Python's str ordering: code point by code point, a proper prefix first.
StrLess(a, b) ==
    \E j \in 1..Len(b) :
        /\ j - 1 <= Len(a)
        /\ \A m \in 1..(j - 1) : a[m] = b[m]
        /\ (Len(a) = j - 1 \/ a[j] < b[j])

\* sorted(keys)
RECURSIVE sorted(_)
sorted(S) ==
    IF S = {} THEN <<>>
    ELSE LET least == CHOOSE a \in S : \A b \in S \ {a} : StrLess(a, b)
         IN <<least>> \o sorted(S \ {least})

\* ''.join([f"{k}{params[k]}" for k in ks])
RECURSIVE join(_, _)
join(d, ks) ==
    IF ks = <<>> THEN <<>>
    ELSE Head(ks) \o DictValue(d, Head(ks)) \o join(d, Tail(ks))

\* hashlib.md5(...).hexdigest(): a function of the bytes hashed, taken as
\* collision-free.
md5(bytes) == [md5 |-> bytes]

\* get_signature, lines 98-99: the mapping the body works on, and the
\* caller's mapping after those two lines.
StripFormat(p) ==
    [local |-> DictPop(p, s_format), callers |-> p]

\* get_signature, lines 101-102: the string that is hashed.
\* (SignedMaterialUnsorted: the same without sorted(), the keys as inserted.)
SignedMaterialUnsorted(local) ==
    join(local, [j \in DOMAIN local |-> local[j][1]]) \o API_SECRET
SignedMaterial(local) ==
    join(local, sorted(DictKeys(local))) \o API_SECRET

get_signature(p) == md5(SignedMaterial(StripFormat(p).local))

\* ------------------------------------------------------------- main, part 1

Min(a, b) == IF a < b THEN a ELSE b
Max(a, b) == IF a > b THEN a ELSE b

\* main, line 193: count = min(1000, max(1, count))
\* (ClampCountNoFloor: the same without max(1, ...).)
ClampCountNoFloor(raw) == Min(MaxCount, raw)
ClampCount(raw) == Min(MaxCount, Max(MinCount, raw))

NoResp == [shape |-> "none", accepted |-> 0]

\* The locals of one loop iteration of main, before anything was typed.
FreshLocals ==
    /\ artist = "" /\ title = "" /\ raw_count = 0 /\ count = 0
    /\ start_date = <<>> /\ base_timestamp = 0
    /\ scrobbles = <<>> /\ i = 0 /\ success_count = 0
    /\ calls = <<>> /\ outcomes = <<>> /\ result = <<>>

\* LastFMScrobbler(): session_key = load_session().
Init ==
    /\ pc = "prompt"
    /\ caller = "none"
    /\ cred_file \in FileContents
    /\ session_key = load_session(cred_file)
    /\ sk_origin = IF Truthy(session_key) THEN "loaded" ELSE "none"
    /\ token = None
    /\ FreshLocals
    /\ wire = <<>>
    /\ API_SECRET = <<>>
    /\ params = <<>>
    /\ api_sig = None

\* main, lines 187-189: 'quit' leaves the loop.
MainQuit ==
    /\ pc = "prompt"
    /\ pc' = "exited"
    /\ UNCHANGED <<caller, wire, authVars, batchVars, signVars>>

\* main, lines 192/197 and 206-207: int() of a non-number raises; the
\* top-level handler logs and the process ends.
MainBadInput ==
    /\ pc = "prompt"
    /\ pc' = "terminated"
    /\ UNCHANGED <<caller, wire, authVars, batchVars, signVars>>

\* main, lines 187-203: read the inputs, clamp the count, call batch_scrobble.
\* RawCounts is the set the typed count is drawn from.
MainReadFrom(RawCounts) ==
    /\ pc = "prompt"
    /\ \E a \in Artists, t \in Titles, raw \in RawCounts :
        /\ artist' = a
        /\ title' = t
        /\ raw_count' = raw
        /\ count' = ClampCount(raw)
    /\ \/ start_date' = <<>>
       \/ \E now \in Clock, d \in DaysAgo :
              start_date' = <<now - d * SecondsPerDay>>
    /\ base_timestamp' = 0
    /\ scrobbles' = <<>> /\ i' = 0 /\ success_count' = 0
    /\ calls' = <<>> /\ outcomes' = <<>> /\ result' = <<>>
    /\ wire' = <<>>
    /\ caller' = "none"
    /\ pc' = "batch_scrobble"
    /\ UNCHANGED <<authVars, signVars>>

MainRead == MainReadFrom((0 - RawBelow)..MaxRaw)

\* main, line 204: print the result; the next iteration starts afresh.
MainPrint ==
    /\ pc = "print"
    /\ pc' = "prompt"
    /\ artist' = "" /\ title' = "" /\ raw_count' = 0 /\ count' = 0
    /\ start_date' = <<>> /\ base_timestamp' = 0
    /\ scrobbles' = <<>> /\ i' = 0 /\ success_count' = 0
    /\ calls' = <<>> /\ outcomes' = <<>> /\ result' = <<>>
    /\ wire' = <<>>
    /\ caller' = "none"
    /\ UNCHANGED <<authVars, signVars>>

\* ----------------------------------------------------------- batch planner

\* range(n)
Range(n) == [j \in 1..n |-> j - 1]

\* batch_scrobble, line 157: [base - (i * track_duration) for i in range(count)]
RawTimestamps(base, n) == [j \in 1..n |-> base - (Range(n)[j] * track_duration)]

\* batch_scrobble, lines 157-158: the list after timestamps.sort().
\* (TimestampsUnsorted: the same without the sort.)
TimestampsUnsorted(base, n) == RawTimestamps(base, n)
Timestamps(base, n) == SortSeq(RawTimestamps(base, n), LAMBDA a, b : a < b)

\* batch_scrobble, line 161.
Scrobbles(a, t, tss) ==
    [j \in DOMAIN tss |-> [artist |-> a, track |-> t, timestamp |-> tss[j]]]

\* batch_scrobble, line 168: scrobbles[i:i + batch_size] (i is 0-based).
\* (SliceInclusive: the same with an inclusive upper index.)
SliceInclusive(list, from) ==
    SubSeq(list, from + 1, Min(from + batch_size + 1, Len(list)))
Slice(list, from) == SubSeq(list, from + 1, Min(from + batch_size, Len(list)))

\* batch_scrobble, lines 150-165.
BatchStart ==
    /\ pc = "batch_scrobble"
    /\ \E now \in Clock :
        base_timestamp' = IF start_date # <<>> THEN start_date[1] ELSE now
    /\ scrobbles' = Scrobbles(artist, title, Timestamps(base_timestamp', count))
    /\ i' = 0
    /\ success_count' = 0
    /\ pc' = "loop"
    /\ UNCHANGED <<caller, wire, authVars, signVars, artist, title, raw_count,
                   count, start_date, calls, outcomes, result>>

\* batch_scrobble, lines 167-170: the next batch goes to scrobble_tracks.
BatchNext ==
    /\ pc = "loop"
    /\ i < Len(scrobbles)
    /\ calls' = Append(calls, Slice(scrobbles, i))
    /\ caller' = "scrobble_tracks"
    /\ wire' = <<>>
    /\ pc' = "ensure_auth"
    /\ UNCHANGED <<authVars, signVars, artist, title, raw_count, count,
                   start_date, base_timestamp, scrobbles, i, success_count,
                   outcomes, result>>

\* batch_scrobble, line 178: return success_count.
BatchReturn ==
    /\ pc = "loop"
    /\ i >= Len(scrobbles)
    /\ result' = <<success_count>>
    /\ pc' = "print"
    /\ UNCHANGED <<caller, wire, authVars, signVars, artist, title, raw_count,
                   count, start_date, base_timestamp, scrobbles, i,
                   success_count, calls, outcomes>>

\* An exception raised inside a submit call.  Under batch_scrobble it is
\* caught by `except Exception` (lines 174-176): logged, the loop goes on
\* with the next batch.  Under scrobble_track nothing catches it: it leaves
\* the method ("raised").
\* (RaiseBreaksLoop: the same with the handler leaving the loop.)
RaiseBreaksLoop(kind) ==
    IF caller = "scrobble_tracks"
    THEN /\ outcomes' = Append(outcomes, [kind |-> kind, resp |-> NoResp])
         /\ i' = Len(scrobbles)
         /\ pc' = "loop"
         /\ UNCHANGED <<artist, title, raw_count, count, start_date,
                        base_timestamp, scrobbles, success_count, calls, result>>
    ELSE /\ pc' = "raised"
         /\ UNCHANGED batchVars
Raise(kind) ==
    IF caller = "scrobble_tracks"
    THEN /\ outcomes' = Append(outcomes, [kind |-> kind, resp |-> NoResp])
         /\ i' = i + batch_size
         /\ pc' = "loop"
         /\ UNCHANGED <<artist, title, raw_count, count, start_date,
                        base_timestamp, scrobbles, success_count, calls, result>>
    ELSE /\ pc' = "raised"
         /\ UNCHANGED batchVars

\* A direct call of the public method scrobble_track.
CallScrobbleTrack ==
    /\ pc = "prompt"
    /\ caller' = "scrobble_track"
    /\ wire' = <<>>
    /\ pc' = "ensure_auth"
    /\ UNCHANGED <<authVars, batchVars, signVars>>

\* ---------------------------------------------------------------- auth flow

\* ensure_auth, line 90.
\* (EnsureAuthAlwaysLogsIn, EnsureAuthNeverLogsIn: the same with the test of
\* session_key replaced by True, by False.)
EnsureAuthAlwaysLogsIn ==
    /\ pc = "ensure_auth"
    /\ pc' = "get_token"
    /\ UNCHANGED <<caller, wire, authVars, batchVars, signVars>>
EnsureAuthNeverLogsIn ==
    /\ pc = "ensure_auth"
    /\ pc' = "post"
    /\ UNCHANGED <<caller, wire, authVars, batchVars, signVars>>
EnsureAuth ==
    /\ pc = "ensure_auth"
    /\ pc' = IF ~Truthy(session_key) THEN "get_token" ELSE "post"
    /\ UNCHANGED <<caller, wire, authVars, batchVars, signVars>>

\* get_token, lines 55-58: the response holds a token.
\* (GetTokenOkSkipsAuthorize: the same with authorize_token left out.)
GetTokenOkSkipsAuthorize ==
    /\ pc = "get_token"
    /\ \E t \in Tokens :
        /\ token' = t
        /\ wire' = Append(wire, Ev("auth.getToken", t))
    /\ pc' = "get_session"
    /\ UNCHANGED <<caller, session_key, cred_file, sk_origin, batchVars, signVars>>
GetTokenOk ==
    /\ pc = "get_token"
    /\ \E t \in Tokens :
        /\ token' = t
        /\ wire' = Append(wire, Ev("auth.getToken", t))
    /\ pc' = "authorize_token"
    /\ UNCHANGED <<caller, session_key, cred_file, sk_origin, batchVars, signVars>>

\* get_token, lines 55-60: the request raises, or the response has no token.
GetTokenFail ==
    /\ pc = "get_token"
    /\ \E cause \in {"request_failed", "no_token"} :
        wire' = Append(wire, Ev("auth.getToken", cause))
    /\ token' = None
    /\ Raise("auth_error")
    /\ UNCHANGED <<caller, session_key, cred_file, sk_origin, signVars>>

\* authorize_token, lines 64-67: print the URL and open the browser.
AuthorizeOpen ==
    /\ pc = "authorize_token"
    /\ wire' = Append(wire, Ev("browser", token))
    /\ pc' = "await_input"
    /\ UNCHANGED <<caller, authVars, batchVars, signVars>>

\* authorize_token, line 68: the user presses Enter.
AuthorizeConfirm ==
    /\ pc = "await_input"
    /\ wire' = Append(wire, Ev("confirm", token))
    /\ pc' = "get_session"
    /\ UNCHANGED <<caller, authVars, batchVars, signVars>>

\* authorize_token, line 68: input() raises EOFError (stdin closed).
AuthorizeFail ==
    /\ pc = "await_input"
    /\ wire' = Append(wire, Ev("confirm", "eof"))
    /\ token' = None
    /\ Raise("auth_error")
    /\ UNCHANGED <<caller, session_key, cred_file, sk_origin, signVars>>

\* get_session, lines 72-84, and ensure_auth, line 93: the response holds a
\* session; save_credentials runs, then session_key is assigned.
GetSessionOk ==
    /\ pc = "get_session"
    /\ \E k \in SessionKeys, o \in SaveOutcomes :
        /\ wire' = wire \o <<Ev("auth.getSession", token),
                             Ev(IF o = "ok" THEN "write" ELSE "write_failed", k)>>
        /\ cred_file' = save_credentials(cred_file, k, o)
        /\ session_key' = k
    /\ sk_origin' = "handshake"
    /\ token' = None
    /\ pc' = "post"
    /\ UNCHANGED <<caller, batchVars, signVars>>

\* get_session, lines 79-86: the request raises, or the response has no
\* session.
\* (GetSessionFailKeepsToken: the same with the token kept on the object.)
GetSessionFailKeepsToken ==
    /\ pc = "get_session"
    /\ \E cause \in {"request_failed", "no_session"} :
        wire' = wire \o <<Ev("auth.getSession", token), Ev("error", cause)>>
    /\ token' = token
    /\ Raise("auth_error")
    /\ UNCHANGED <<caller, session_key, cred_file, sk_origin, signVars>>
GetSessionFail ==
    /\ pc = "get_session"
    /\ \E cause \in {"request_failed", "no_session"} :
        wire' = wire \o <<Ev("auth.getSession", token), Ev("error", cause)>>
    /\ token' = None
    /\ Raise("auth_error")
    /\ UNCHANGED <<caller, session_key, cred_file, sk_origin, signVars>>

\* ---------------------------------------------------------------- submitter

\* The JSON bodies a 2xx scrobble response can carry, as far as line 171
\* reads them: one of the nested fields missing, or accepted = n.
Responses(batch) ==
    {[shape |-> "no_scrobbles", accepted |-> 0],
     [shape |-> "no_accepted", accepted |-> 0]}
    \cup {[shape |-> "full", accepted |-> n] : n \in {Len(batch) - 1, Len(batch)}}

\* batch_scrobble, line 171:
\* result.get('scrobbles', {}).get('@attr', {}).get('accepted', 0)
Accepted(resp) == IF resp.shape = "full" THEN resp.accepted ELSE 0

\* scrobble_tracks, lines 129-146, and batch_scrobble, lines 171-176: the
\* POST is answered 2xx.
PostBatchOk ==
    /\ pc = "post"
    /\ caller = "scrobble_tracks"
    /\ wire' = Append(wire, Ev("track.scrobble", session_key))
    /\ \E resp \in Responses(calls[Len(calls)]) :
        /\ success_count' = success_count + Accepted(resp)
        /\ outcomes' = Append(outcomes, [kind |-> "ok", resp |-> resp])
    /\ i' = i + batch_size
    /\ pc' = "loop"
    /\ UNCHANGED <<caller, authVars, signVars, artist, title, raw_count, count,
                   start_date, base_timestamp, scrobbles, calls, result>>

\* scrobble_tracks, lines 144-146: requests.post raises, raise_for_status
\* raises HTTPError, or response.json() raises.
PostBatchHttpError ==
    /\ pc = "post"
    /\ caller = "scrobble_tracks"
    /\ wire' = Append(wire, Ev("track.scrobble", session_key))
    /\ Raise("http_error")
    /\ UNCHANGED <<caller, authVars, signVars>>

\* scrobble_track, lines 110-123: the response's JSON is returned whatever
\* the status.
PostSingle ==
    /\ pc = "post"
    /\ caller = "scrobble_track"
    /\ wire' = Append(wire, Ev("track.scrobble", session_key))
    /\ pc' = "prompt"
    /\ UNCHANGED <<caller, authVars, batchVars, signVars>>

\* scrobble_track, lines 122-123: requests.post or response.json() raises.
PostSingleFail ==
    /\ pc = "post"
    /\ caller = "scrobble_track"
    /\ wire' = Append(wire, Ev("track.scrobble", session_key))
    /\ Raise("http_error")
    /\ UNCHANGED <<caller, authVars, signVars>>

Next ==
    \/ MainQuit
    \/ MainBadInput
    \/ MainRead
    \/ MainPrint
    \/ BatchStart
    \/ BatchNext
    \/ BatchReturn
    \/ CallScrobbleTrack
    \/ EnsureAuth
    \/ GetTokenOk
    \/ GetTokenFail
    \/ AuthorizeOpen
    \/ AuthorizeConfirm
    \/ AuthorizeFail
    \/ GetSessionOk
    \/ GetSessionFail
    \/ PostBatchOk
    \/ PostBatchHttpError
    \/ PostSingle
    \/ PostSingleFail

Spec == Init /\ [][Next]_vars

\* ---------------------------------------------- the clamp of main, alone

\* The counts typed at the prompt in SpecClamp, the spec's examples included.
ClampInputs == ((0 - MaxRawClamp)..MaxRawClamp) \cup {5000}

MainReadAny == MainReadFrom(ClampInputs)

NextClamp == MainReadAny

SpecClamp == Init /\ [][NextClamp]_vars

\* ------------------------------------------------------ the signer, alone

InitSign ==
    /\ pc = "sign"
    /\ caller = "none"
    /\ cred_file = [kind |-> "absent", session_key |-> None]
    /\ session_key = load_session(cred_file)
    /\ sk_origin = "none"
    /\ token = None
    /\ FreshLocals
    /\ wire = <<>>
    /\ API_SECRET \in Secrets
    /\ params \in Dicts(MaxParams)
    /\ api_sig = None

\* A call get_signature(params): the caller's mapping after the call, and
\* the value returned.
SignCall ==
    /\ pc = "sign"
    /\ api_sig' = get_signature(params)
    /\ params' = StripFormat(params).callers
    /\ pc' = "signed"
    /\ UNCHANGED <<caller, wire, authVars, batchVars, API_SECRET>>

NextSign == SignCall

SpecSign == InitSign /\ [][NextSign]_vars

\* ------------------------------------------------------------------ claims

RECURSIVE Flatten(_)
Flatten(ss) == IF ss = <<>> THEN <<>> ELSE Head(ss) \o Flatten(Tail(ss))

\* ceil(n / batch_size), for n >= 0
CeilBatches(n) == (n + batch_size - 1) \div batch_size

HandshakePcs == {"get_token", "authorize_token", "await_input", "get_session"}
SubmitPcs == HandshakePcs \cup {"ensure_auth", "post"}
\* batch_scrobble has built its list and not yet returned to main's prompt.
InBatch == pc \in {"loop", "print"} \/ (caller = "scrobble_tracks" /\ pc \in SubmitPcs)
Has(kind) == \E j \in DOMAIN outcomes : outcomes[j].kind = kind

\* C1: one batch_scrobble call passes ceil(count/50) batches to
\* scrobble_tracks, each of 1..50 events, and the batches in order
\* concatenate to the generated list: at every moment the batches passed so
\* far are the list's first events in its order, split at multiples of 50,
\* and one outcome (success or failure) is recorded per finished call; at the
\* return the batches are the whole list of count events.
C1_Chunking ==
    InBatch =>
        /\ Len(scrobbles) = count
        /\ \A j \in DOMAIN calls : Len(calls[j]) >= 1 /\ Len(calls[j]) <= batch_size
        /\ Len(Flatten(calls)) <= Len(scrobbles)
        /\ Flatten(calls) = SubSeq(scrobbles, 1, Len(Flatten(calls)))
        /\ Len(calls) = CeilBatches(Len(Flatten(calls)))
        /\ Len(outcomes) = Len(calls) - (IF pc \in SubmitPcs THEN 1 ELSE 0)
        /\ pc = "print" =>
               /\ Len(calls) = CeilBatches(count)
               /\ Flatten(calls) = scrobbles

\* C1 witness: a run of 120 events returned after three calls of 50, 50 and
\* 20 events, one of which failed.
C1_Witness ==
    /\ pc = "print" /\ count = 120 /\ Len(calls) = 3
    /\ Len(calls[1]) = 50 /\ Len(calls[2]) = 50 /\ Len(calls[3]) = 20
    /\ Has("http_error")

RECURSIVE SumAccepted(_)
SumAccepted(outs) ==
    IF outs = <<>> THEN 0
    ELSE (IF Head(outs).kind = "ok" /\ Head(outs).resp.shape = "full"
          THEN Head(outs).resp.accepted ELSE 0) + SumAccepted(Tail(outs))

\* C2: when batch_scrobble returns, every batch after one that failed with an
\* HTTP error was still POSTed (none was skipped or stopped by the failure),
\* and the returned value is the sum of the accepted fields (0 when absent)
\* of the successful calls only.
C2_PartialFailure ==
    pc = "print" =>
        /\ Len(outcomes) = CeilBatches(count)
        /\ \A j \in DOMAIN outcomes :
               outcomes[j].kind = "http_error" =>
                   \A m \in (j + 1)..CeilBatches(count) :
                       outcomes[m].kind \in {"ok", "http_error"}
        /\ result = <<SumAccepted(outcomes)>>

\* C2 witness: of 120 events the first batch failed and the other two were
\* accepted whole: 70 is returned.
C2_Witness ==
    /\ pc = "print" /\ count = 120 /\ Len(outcomes) = 3
    /\ outcomes[1].kind = "http_error"
    /\ outcomes[2].kind = "ok" /\ outcomes[3].kind = "ok"
    /\ result = <<70>>

\* C3: the timestamps of the events in the order they are passed to
\* scrobble_tracks rise by exactly 180 from one to the next, and the last
\* event of the run carries the base timestamp.
C3_Timestamps ==
    InBatch =>
        LET sent == Flatten(calls) IN
        /\ \A j \in 1..(Len(sent) - 1) :
               /\ sent[j].timestamp < sent[j + 1].timestamp
               /\ sent[j + 1].timestamp - sent[j].timestamp = track_duration
        /\ \A j \in 1..(Len(scrobbles) - 1) :
               scrobbles[j + 1].timestamp - scrobbles[j].timestamp = track_duration
        /\ pc = "print" =>
               /\ Len(sent) = count
               /\ sent[Len(sent)].timestamp = base_timestamp

\* C3 witness: a returned run that spans more than one batch.
C3_Witness ==
    /\ pc = "print" /\ Len(calls) >= 2
    /\ Flatten(calls)[1].timestamp = base_timestamp - (count - 1) * track_duration

HandshakeEvents == {"auth.getToken", "browser", "confirm", "auth.getSession",
                    "write", "write_failed", "error"}

\* A step of ensure_auth taken with a session key held: nothing on the wire,
\* nothing written, session_key unchanged, on to the POST.
C4_HeldStep ==
    (pc = "ensure_auth" /\ Truthy(session_key)) =>
        /\ pc' = "post"
        /\ wire' = wire
        /\ session_key' = session_key
        /\ cred_file' = cred_file
        /\ token' = token
\* A step taken with a session key held keeps it and stays out of the
\* handshake.
C4_OnceHeld ==
    Truthy(session_key) =>
        /\ session_key' = session_key
        /\ cred_file' = cred_file
        /\ pc' \notin HandshakePcs
        /\ \A j \in DOMAIN wire' : wire'[j].ev \in HandshakeEvents => j \in DOMAIN wire
\* C4: with a session key held, ensure_auth does nothing (no request, no
\* browser, no confirmation, no write, session_key unchanged) and goes on to
\* the POST; and once a session key is held, no step of the process changes
\* it or enters the handshake again.
C4_EnsureAuthNoOp == [][C4_HeldStep /\ C4_OnceHeld]_vars

\* C4 witness: the second batch of a run whose first batch did the
\* handshake is at its POST with nothing on the wire.
C4_Witness ==
    /\ pc = "post" /\ Len(calls) = 2 /\ wire = <<>>
    /\ sk_origin = "handshake" /\ outcomes[1].kind = "ok"

\* The spec's handshake states, read off the position in ensure_auth.
AuthState ==
    IF Truthy(session_key) THEN "SESSION_ACQUIRED"
    ELSE CASE pc = "authorize_token" -> "TOKEN_REQUESTED"
           [] pc \in {"await_input", "get_session"} -> "AWAITING_USER_AUTH"
           [] OTHER -> "NO_SESSION"

\* The wire of one submit call shows the handshake in order: every session
\* exchange is the fourth event, after a token request that returned the
\* token it sends, the browser opened for that token and the confirmation.
HandshakeInOrder ==
    \A j \in DOMAIN wire :
        wire[j].ev = "auth.getSession" =>
            /\ j = 4
            /\ wire[j].val \in Tokens
            /\ wire[1] = Ev("auth.getToken", wire[j].val)
            /\ wire[2] = Ev("browser", wire[j].val)
            /\ wire[3] = Ev("confirm", wire[j].val)
StateOrder ==
    /\ AuthState' = "TOKEN_REQUESTED" => AuthState \in {"NO_SESSION", "TOKEN_REQUESTED"}
    /\ AuthState' = "AWAITING_USER_AUTH" =>
           AuthState \in {"TOKEN_REQUESTED", "AWAITING_USER_AUTH"}
    /\ AuthState' = "SESSION_ACQUIRED" =>
           AuthState \in {"AWAITING_USER_AUTH", "SESSION_ACQUIRED"}
KeyWritten == [kind |-> "json", session_key |-> session_key]

\* C5, as claimed: the handshake runs in order with one token, and once it
\* succeeded the credential file holds exactly the session key in memory.
C5_FileAlwaysWritten ==
    /\ HandshakeInOrder
    /\ sk_origin = "handshake" => cred_file = KeyWritten

\* The state part of C5 as amended.
C5_Inv ==
    /\ HandshakeInOrder
    /\ sk_origin = "handshake" =>
           /\ Truthy(session_key)
           /\ cred_file = KeyWritten \/ ~Truthy(load_session(cred_file))
    /\ \A j \in DOMAIN wire :
           /\ wire[j].ev \in {"write", "write_failed"} =>
                  /\ j = 5 /\ wire[4].ev = "auth.getSession"
                  /\ wire[j].val = session_key
                  /\ sk_origin = "handshake"
           /\ wire[j].ev = "write" => cred_file = KeyWritten
           /\ wire[j].ev = "write_failed" => ~Truthy(load_session(cred_file))
\* C5, amended: the handshake runs in order with one token; on success
\* save_credentials is called with exactly the key that becomes session_key,
\* and the file holds exactly that key when the write succeeds; when the
\* write fails (logged and swallowed) session_key is set all the same and
\* the file holds no usable session key.
C5_Handshake == []C5_Inv /\ [][StateOrder]_vars

\* C5 witness: no credential at startup, the handshake done, the key on
\* disk and in memory.
C5_Witness ==
    /\ pc = "post" /\ Len(wire) = 5 /\ wire[5].ev = "write"
    /\ sk_origin = "handshake" /\ cred_file = KeyWritten

\* A handshake step that fails: it leaves the handshake, and not for the POST.
C6_FailStep ==
    (pc \in HandshakePcs /\ pc' \notin HandshakePcs \cup {"post"}) =>
        /\ ~Truthy(session_key') /\ session_key' = session_key
        /\ cred_file' = cred_file
        /\ sk_origin' = sk_origin
        /\ token' = None
\* ensure_auth entered without a session key.
C6_Restart ==
    (pc = "ensure_auth" /\ ~Truthy(session_key)) =>
        token = None /\ pc' = "get_token"
\* C6: a failing handshake step leaves session_key unset, the credential
\* file as it was and no token behind; ensure_auth entered without a session
\* key starts at get_token, with no token.
C6_NoPartialState == [][C6_FailStep /\ C6_Restart]_vars

\* C6 witness: after a failed handshake in the first batch, the second batch
\* is asking for a token again, the first token gone.
C6_Witness ==
    /\ pc = "get_token" /\ Len(outcomes) = 1 /\ outcomes[1].kind = "auth_error"
    /\ token = None /\ ~Truthy(session_key)

\* C7, as claimed: after a handshake failure inside batch_scrobble the
\* process has terminated and no further batch was passed on.
C7_AuthErrorFatal ==
    \A j \in DOMAIN outcomes :
        outcomes[j].kind = "auth_error" => pc = "terminated" /\ Len(calls) = j

\* The current submit call's wire shows a handshake step that failed.
HandshakeFailed ==
    \E j \in DOMAIN wire :
        \/ wire[j].ev = "auth.getToken" /\ wire[j].val \notin Tokens
        \/ wire[j].ev = "confirm" /\ wire[j].val \notin Tokens
        \/ wire[j].ev = "error"

\* C10: every POST on the wire carries the session key held, which was
\* loaded from the credential file or came out of a handshake that is either
\* complete on the wire before the POST or was done by an earlier call; a
\* call that ended in a handshake failure has no POST on its wire.
C10_PostOnlyWithSession ==
    /\ \A j \in DOMAIN wire :
           wire[j].ev = "track.scrobble" =>
               /\ Truthy(session_key) /\ wire[j].val = session_key
               /\ \/ sk_origin = "loaded" /\ j = 1 /\ load_session(cred_file) = session_key
                  \/ sk_origin = "handshake" /\ j = 1
                  \/ /\ sk_origin = "handshake" /\ j = 6
                     /\ wire[1].ev = "auth.getToken" /\ wire[1].val \in Tokens
                     /\ wire[2].ev = "browser" /\ wire[3].ev = "confirm"
                     /\ wire[3].val = wire[1].val
                     /\ wire[4] = Ev("auth.getSession", wire[1].val)
                     /\ wire[5].val = session_key
    /\ (pc = "loop" /\ outcomes # <<>> /\ outcomes[Len(outcomes)].kind = "auth_error") =>
           \A j \in DOMAIN wire : wire[j].ev # "track.scrobble"
    /\ HandshakeFailed => \A j \in DOMAIN wire : wire[j].ev # "track.scrobble"

\* C10 witness: a POST sent right after a handshake in the same call.
C10_Witness ==
    /\ Len(wire) = 6 /\ wire[6].ev = "track.scrobble"
    /\ sk_origin = "handshake"

\* C9: the count handed to batch_scrobble is the typed count clamped into
\* [1, 1000].
C9_Clamp ==
    pc = "batch_scrobble" =>
        /\ count >= 1 /\ count <= 1000
        /\ raw_count > 1000 => count = 1000
        /\ raw_count < 1 => count = 1
        /\ (raw_count >= 1 /\ raw_count <= 1000) => count = raw_count

\* C9 witness: the spec's example, 5000 typed, 1000 passed.
C9_Witness == pc = "batch_scrobble" /\ raw_count = 5000 /\ count = 1000

\* The ways of inserting the items of d: every ordering of its items.
Reorderings(d) ==
    {q \in [DOMAIN d -> {d[j] : j \in DOMAIN d}] :
        {q[j] : j \in DOMAIN q} = {d[j] : j \in DOMAIN d}}

\* The signed material as claimed: over the keys other than format, in
\* strictly rising order, each key followed by its value, then the secret.
ClaimedMaterial(d) ==
    LET keys == DictKeys(d) \ {s_format}
        n == Cardinality(keys)
        order == CHOOSE f \in [1..n -> keys] :
                     \A a, b \in 1..n : a < b => StrLess(f[a], f[b])
    IN Flatten([j \in 1..n |-> order[j] \o DictValue(d, order[j])]) \o API_SECRET

\* The value returned by a call, against the claimed material, the format
\* key and the insertion order.
C8_Signed ==
    pc = "signed" =>
        /\ api_sig = md5(ClaimedMaterial(params))
        /\ api_sig = get_signature(DictPop(params, s_format))
        /\ \A x \in SignValues : get_signature(DictSet(params, s_format, x)) = api_sig
        /\ \A q \in Reorderings(params) : get_signature(q) = api_sig
\* The call leaves the caller's mapping as it was.
C8_CallerUnmodified == pc = "sign" => params' = params
\* C8: the signature is the digest of key+value over the sorted keys other
\* than format, followed by the secret; it is the same with format set to
\* any value as with format removed, and the same for every insertion order
\* of the items; the caller's mapping is not modified.
C8_Signature == []C8_Signed /\ [][C8_CallerUnmodified]_vars

\* C8 witness: a mapping inserted out of key order, format among its keys,
\* has been signed, and format is still in it.
C8_Witness ==
    /\ pc = "signed" /\ Len(params) = 3
    /\ params[1][1] = s_sk /\ params[2][1] = s_format /\ params[3][1] = s_api_key
    /\ API_SECRET # <<>>

====
